---- MODULE Spec2Model ----
(***************************************************************************)
(* The Dropdown controller of src/components/dropdown/index.ts: the        *)
(* visibility state machine, the trigger wiring (click / hover), the       *)
(* capture-phase outside-click listener, the hover checks scheduled with   *)
(* setTimeout, the options handed to the positioning engine, and the       *)
(* markup-driven initDropdowns().                                          *)
(*                                                                         *)
(* The DOM is a small set of pairwise disjoint elements (no trigger or     *)
(* target nested in another one).  A click hits a Node: an element itself, *)
(* a descendant of it, or a place outside every trigger and target.        *)
(***************************************************************************)
EXTENDS Integers, Sequences, FiniteSets, TLC

VARIABLES
    dropdowns,      \* the Dropdown instances constructed so far (a sequence)
    classList,      \* element -> the classes 'hidden' / 'block' it carries
    elListeners,    \* listeners added with el.addEventListener(ev, fn)
    bodyListeners,  \* capture-phase click listeners on document.body, in order
    timers,         \* pending setTimeout(..., 100) callbacks, in firing order
    pointer,        \* the element under the pointer (:hover), or Outside
    last,           \* the last operation or event: what it was, the state
                    \* before it and what ran during it
    toggleRun,      \* toggle() calls made so far when nothing else was (-1
                    \* once anything else has happened)
    markers,        \* the [data-dropdown-toggle] elements, in document order
    docIds,         \* the ids getElementById can resolve
    diagnostics,    \* the console.error reports of initDropdowns
    initCalls       \* calls of initDropdowns() so far

vars == <<dropdowns, classList, elListeners, bodyListeners, timers, pointer,
          last, toggleRun, markers, docIds, diagnostics, initCalls>>

----------------------------------------------------------------------------
(* Bounds of the model.                                                    *)

\* closures registered on document.body at any one time
MaxListeners == 3
\* pending hover checks at any one time
MaxTimers == 2
\* 'eventListeners' entries of the engine's modifier list that are kept
\* (the code appends one on every show() and hide(); older ones are dropped)
MaxMods == 2
\* nesting depth up to which a user callback re-enters the controller
MaxReentry == 1
\* length of a run of toggle() calls that is counted
MaxToggles == 4
\* marker elements in the document scanned by initDropdowns
MaxMarkers == 2
\* calls of initDropdowns()
MaxInitCalls == 1

----------------------------------------------------------------------------
(* The DOM.                                                                *)

Pairs == 1..MaxMarkers
NoEl == <<"null", 0>>
Outside == <<"outside", 0>>
Triggers == {<<"t", i>> : i \in Pairs}
Targets == {<<"d", i>> : i \in Pairs}
Elements == Triggers \cup Targets
Classes == {"hidden", "block"}

\* what a click can hit: an element, a descendant of it, or a place outside
NodesOf(els) == [el : els \cup {Outside}, part : {"self"}] \cup [el : els, part : {"child"}]
OutsideNode == [el |-> Outside, part |-> "self"]

\* el.contains(node): the element itself or a descendant of it
Contains(el, node) == el # NoEl /\ node.el = el

\* el.matches(':hover')
MatchesHover(el, ptr) == el # NoEl /\ ptr = el

\* document.getElementById(id)
getElementById(ids, id) == IF id \in ids THEN <<"d", id>> ELSE NoEl

Range(s) == {s[i] : i \in DOMAIN s}

RECURSIVE Flatten(_)
Flatten(ss) == IF ss = <<>> THEN <<>> ELSE Head(ss) \o Flatten(Tail(ss))

\* a JavaScript number: an integer or NaN
Num(n) == [nan |-> FALSE, n |-> n]
NaN == [nan |-> TRUE, n |-> 0]

----------------------------------------------------------------------------
(* Options, the positioning engine, construction.                          *)

\* what a user callback does with the controller it is handed
CallbackKinds == {"noop", "show", "hide", "toggle"}

Default ==
    [placement |-> "bottom", triggerType |-> "click",
     offsetSkidding |-> Num(0), offsetDistance |-> Num(10),
     onShow |-> "noop", onHide |-> "noop"]

\* { ...Default, ...options }
MergeOptions(options) ==
    [k \in DOMAIN Default |-> IF k \in DOMAIN options THEN options[k] ELSE Default[k]]

_createPopperInstance(triggerEl, targetEl, options) ==
    [reference |-> triggerEl, popper |-> targetEl,
     placement |-> options.placement,
     modifiers |-> << [name |-> "offset",
                       options |-> <<options.offsetSkidding, options.offsetDistance>>] >>]

\* the modifier list with its oldest 'eventListeners' entry dropped once more
\* than MaxMods of them are held
Saturate(mods) ==
    LET evs == {i \in DOMAIN mods : mods[i].name = "eventListeners"}
    IN IF Cardinality(evs) <= MaxMods THEN mods
       ELSE LET first == CHOOSE i \in evs : \A j \in evs : i <= j
            IN SubSeq(mods, 1, first - 1) \o SubSeq(mods, first + 1, Len(mods))

\* variant: the new entry is put in front of the modifiers held so far
setOptionsInFront(popperInstance, enabled) ==
    [popperInstance EXCEPT !.modifiers =
        Saturate(<<[name |-> "eventListeners", enabled |-> enabled]>> \o @)]

\* variant: the update does not spread options.modifiers
setOptionsNoSpread(popperInstance, enabled) ==
    [popperInstance EXCEPT !.modifiers =
        <<[name |-> "eventListeners", enabled |-> enabled]>>]

\* popperInstance.setOptions(options => ({...options, modifiers:
\*   [...options.modifiers, {name: 'eventListeners', enabled}]}))
setOptions(popperInstance, enabled) ==
    [popperInstance EXCEPT !.modifiers =
        Saturate(Append(@, [name |-> "eventListeners", enabled |-> enabled]))]

_getTriggerEvents(options) ==
    CASE options.triggerType = "hover" ->
            [showEvents |-> <<"mouseenter", "click">>, hideEvents |-> <<"mouseleave">>]
      [] options.triggerType = "click" ->
            [showEvents |-> <<"click">>, hideEvents |-> <<>>]
      [] OTHER ->
            [showEvents |-> <<"click">>, hideEvents |-> <<>>]

Listener(el, ev, c, handler) == [el |-> el, ev |-> ev, owner |-> c, handler |-> handler]

\* the listeners _init registers for controller c
_initListeners(d, c) ==
    IF d.triggerEl = NoEl THEN <<>>
    ELSE LET triggerEvents == _getTriggerEvents(d.options)
             se == triggerEvents.showEvents
             he == triggerEvents.hideEvents
             click == IF d.options.triggerType = "click"
                      THEN [i \in 1..Len(se) |-> Listener(d.triggerEl, se[i], c, "toggle")]
                      ELSE <<>>
             hover == IF d.options.triggerType = "hover"
                      THEN Flatten([i \in 1..Len(se) |->
                              << Listener(d.triggerEl, se[i], c,
                                          IF se[i] = "click" THEN "toggle" ELSE "show"),
                                 Listener(d.targetEl, se[i], c, "show") >>])
                           \o Flatten([i \in 1..Len(he) |->
                              << Listener(d.triggerEl, he[i], c, "checkTarget"),
                                 Listener(d.targetEl, he[i], c, "checkTrigger") >>])
                      ELSE <<>>
         IN click \o hover

_init(w, c) == [w EXCEPT !.el = @ \o _initListeners(w.dd[c], c)]

\* new Dropdown(targetElement, triggerElement, options)
Dropdown(w, targetElement, triggerElement, options) ==
    LET opts == MergeOptions(options)
        d == [targetEl |-> targetElement,
              triggerEl |-> triggerElement,
              options |-> opts,
              popperInstance |-> _createPopperInstance(triggerElement, targetElement, opts),
              visible |-> FALSE,
              clickOutsideEventListener |-> 0]
    IN _init([w EXCEPT !.dd = Append(@, d)], Len(w.dd) + 1)

----------------------------------------------------------------------------
(* show / hide / toggle and the outside-click listener.                    *)

\* what is recorded of a call or a callback: the state it starts from
Entry(w, c, e) ==
    [e |-> e, c |-> c,
     visible |-> w.dd[c].visible,
     classes |-> w.cl[w.dd[c].targetEl],
     registered |-> Cardinality({i \in DOMAIN w.body : w.body[i].owner = c}),
     current |-> \E i \in DOMAIN w.body :
                    /\ w.body[i].owner = c
                    /\ w.body[i].id = w.dd[c].clickOutsideEventListener]

Log(w, c, e) == [w EXCEPT !.log = Append(@, Entry(w, c, e))]

\* a closure no registration and no running dispatch still holds
FreshId(w) ==
    LET used == {w.body[i].id : i \in DOMAIN w.body} \cup {l.id : l \in w.snap}
    IN CHOOSE i \in 1..(Cardinality(used) + 1) :
          i \notin used /\ \A j \in 1..(i - 1) : j \in used

_setupClickOutsideListener(w, c) ==
    LET id == FreshId(w)
    IN [w EXCEPT !.dd[c].clickOutsideEventListener = id,
                 !.body = Append(@, [owner |-> c, id |-> id])]

\* variant: removeEventListener is handed another function than the one added
_removeClickOutsideListenerOtherFn(w, c) == w

\* variant: every controller hands the document one and the same function,
\* so that removing it takes the listeners of all of them off
_removeClickOutsideListenerShared(w, c) == [w EXCEPT !.body = <<>>]

_removeClickOutsideListener(w, c) ==
    LET gone == [owner |-> c, id |-> w.dd[c].clickOutsideEventListener]
    IN [w EXCEPT !.body = SelectSeq(@, LAMBDA l : l # gone)]

RECURSIVE show(_, _, _), hide(_, _, _), toggle(_, _, _)

\* this._options.onShow(this) / this._options.onHide(this): the user's callback,
\* which may call back into the controller
Callback(w, c, name, depth) ==
    LET kind == w.dd[c].options[name]
        w1 == Log(w, c, name)
    IN IF depth >= MaxReentry THEN w1
       ELSE CASE kind = "show" -> show(w1, c, depth + 1)
              [] kind = "hide" -> hide(w1, c, depth + 1)
              [] kind = "toggle" -> toggle(w1, c, depth + 1)
              [] OTHER -> w1

\* variant: show() calls onShow right after the engine update, before the
\* listener, the recomputation and the state
showCallbackEarly(w, c, depth) ==
    LET t == w.dd[c].targetEl
        w0 == Log(w, c, "show")
        w1 == [w0 EXCEPT !.cl[t] = (@ \ {"hidden"}) \cup {"block"}]
        w2 == [w1 EXCEPT !.dd[c].popperInstance = setOptions(@, TRUE)]
        w3 == Callback(w2, c, "onShow", depth)
        w4 == _setupClickOutsideListener(w3, c)
        w5 == Log(w4, c, "update")
    IN [w5 EXCEPT !.dd[c].visible = TRUE]

show(w, c, depth) ==
    LET t == w.dd[c].targetEl
        w0 == Log(w, c, "show")
        w1 == [w0 EXCEPT !.cl[t] = (@ \ {"hidden"}) \cup {"block"}]
        w2 == [w1 EXCEPT !.dd[c].popperInstance = setOptions(@, TRUE)]
        w3 == _setupClickOutsideListener(w2, c)
        w4 == Log(w3, c, "update")
        w5 == [w4 EXCEPT !.dd[c].visible = TRUE]
    IN Callback(w5, c, "onShow", depth)

hide(w, c, depth) ==
    LET t == w.dd[c].targetEl
        w0 == Log(w, c, "hide")
        w1 == [w0 EXCEPT !.cl[t] = (@ \ {"block"}) \cup {"hidden"}]
        w2 == [w1 EXCEPT !.dd[c].popperInstance = setOptions(@, FALSE)]
        w3 == [w2 EXCEPT !.dd[c].visible = FALSE]
        w4 == _removeClickOutsideListener(w3, c)
    IN Callback(w4, c, "onHide", depth)

\* variant: toggle() without its test of the state
toggleAlwaysShow(w, c, depth) == show(Log(w, c, "toggle"), c, depth)

toggle(w, c, depth) ==
    LET w0 == Log(w, c, "toggle")
    IN IF w0.dd[c].visible THEN hide(w0, c, depth) ELSE show(w0, c, depth)

\* variant: the handler does not look at this._visible
_handleClickOutsideNoVisibleTest(w, c, clickedEl) ==
    LET d == w.dd[c]
        targetEl == d.targetEl
    IN IF clickedEl # [el |-> targetEl, part |-> "self"] /\ ~Contains(targetEl, clickedEl)
       THEN IF d.triggerEl = NoEl THEN Log(w, c, "TypeError")
            ELSE IF ~Contains(d.triggerEl, clickedEl)
                 THEN hide(w, c, 0)
                 ELSE w
       ELSE w

\* variant: the handler does not look whether the click was in the target
_handleClickOutsideNoTargetTest(w, c, clickedEl) ==
    LET d == w.dd[c]
    IN IF d.triggerEl = NoEl THEN Log(w, c, "TypeError")
       ELSE IF ~Contains(d.triggerEl, clickedEl) /\ d.visible THEN hide(w, c, 0) ELSE w

\* variant: the handler does not look whether the click was in the trigger
_handleClickOutsideNoTriggerTest(w, c, clickedEl) ==
    LET d == w.dd[c]
        targetEl == d.targetEl
    IN IF clickedEl # [el |-> targetEl, part |-> "self"] /\ ~Contains(targetEl, clickedEl)
          /\ d.visible
       THEN hide(w, c, 0)
       ELSE w

\* a null _triggerEl makes this._triggerEl.contains(...) throw a TypeError, which
\* ends the handler; the dispatch goes on with the next listener
_handleClickOutside(w, c, clickedEl) ==
    LET d == w.dd[c]
        targetEl == d.targetEl
    IN IF clickedEl # [el |-> targetEl, part |-> "self"] /\ ~Contains(targetEl, clickedEl)
       THEN IF d.triggerEl = NoEl THEN Log(w, c, "TypeError")
            ELSE IF ~Contains(d.triggerEl, clickedEl) /\ d.visible
                 THEN hide(w, c, 0)
                 ELSE w
       ELSE w

----------------------------------------------------------------------------
(* Event dispatch.                                                         *)

RECURSIVE RunCapture(_, _, _)
\* the capture-phase click listeners of document.body, in registration order;
\* one that was removed before its turn is not run
RunCapture(w, ls, clickedEl) ==
    IF ls = <<>> THEN w
    ELSE LET l == Head(ls)
             w1 == IF l \in Range(w.body)
                   THEN _handleClickOutside(w, l.owner, clickedEl)
                   ELSE w
         IN RunCapture(w1, Tail(ls), clickedEl)

\* variant: a mouseleave on the target schedules no check
RunListenerTargetUnchecked(w, l) ==
    CASE l.handler = "toggle" -> toggle(w, l.owner, 0)
      [] l.handler = "show" -> show(w, l.owner, 0)
      [] l.handler = "checkTarget" ->
            [w EXCEPT !.timers = Append(@, [owner |-> l.owner, check |-> "target"])]
      [] l.handler = "checkTrigger" -> w

\* a listener registered by _init runs
RunListener(w, l) ==
    CASE l.handler = "toggle" -> toggle(w, l.owner, 0)
      [] l.handler = "show" -> show(w, l.owner, 0)
      [] l.handler = "checkTarget" ->
            [w EXCEPT !.timers = Append(@, [owner |-> l.owner, check |-> "target"])]
      [] l.handler = "checkTrigger" ->
            [w EXCEPT !.timers = Append(@, [owner |-> l.owner, check |-> "trigger"])]

RECURSIVE RunListeners(_, _)
RunListeners(w, ls) ==
    IF ls = <<>> THEN w ELSE RunListeners(RunListener(w, Head(ls)), Tail(ls))

\* the listeners for ev that an event at el reaches
ListenersAt(w, ev, el) == SelectSeq(w.el, LAMBDA l : l.ev = ev /\ l.el = el)

\* variant: the click does not pass document.body on its way to the element
DispatchClickPastBody(w, clickedEl) ==
    RunListeners(w, ListenersAt(w, "click", clickedEl.el))

\* a click on clickedEl: document.body's capture listeners first, then the
\* listeners of the element hit (the event bubbles up from a descendant)
DispatchClick(w, clickedEl) ==
    LET w1 == RunCapture([w EXCEPT !.snap = Range(w.body)], w.body, clickedEl)
        w2 == [w1 EXCEPT !.snap = {}]
    IN RunListeners(w2, ListenersAt(w2, "click", clickedEl.el))

\* the pointer moves to another place: mouseleave where it was, mouseenter
\* where it arrives
DispatchMove(w, to) ==
    LET w1 == RunListeners(w, ListenersAt(w, "mouseleave", w.ptr))
        w2 == [w1 EXCEPT !.ptr = to]
    IN RunListeners(w2, ListenersAt(w2, "mouseenter", to))

\* variant: the check looks at the element that was left, not at the other one
RunTimerSameElement(w, t) ==
    LET d == w.dd[t.owner]
        same == IF t.check = "target" THEN d.triggerEl ELSE d.targetEl
    IN IF ~MatchesHover(same, w.ptr) THEN hide(w, t.owner, 0) ELSE w

\* the callback of setTimeout(..., 100) of _init
RunTimer(w, t) ==
    LET d == w.dd[t.owner]
        other == IF t.check = "target" THEN d.targetEl ELSE d.triggerEl
    IN IF ~MatchesHover(other, w.ptr) THEN hide(w, t.owner, 0) ELSE w

----------------------------------------------------------------------------
(* The markup-driven initializer.                                          *)

Digits == <<"0", "1", "2", "3", "4", "5", "6", "7", "8", "9">>
IsDigit(ch) == \E i \in DOMAIN Digits : Digits[i] = ch
DigitVal(ch) == (CHOOSE i \in DOMAIN Digits : Digits[i] = ch) - 1

RECURSIVE DigitsValue(_, _)
\* the value of the leading digits of s, after acc
DigitsValue(s, acc) ==
    IF s = <<>> \/ ~IsDigit(Head(s)) THEN acc
    ELSE DigitsValue(Tail(s), 10 * acc + DigitVal(Head(s)))

RECURSIVE SkipSpace(_)
SkipSpace(s) == IF s # <<>> /\ Head(s) = " " THEN SkipSpace(Tail(s)) ELSE s

\* parseInt(s) of a string given as its characters: leading white space, an
\* optional sign, then digits up to the first other character; NaN without digits
parseInt(s) ==
    LET t == SkipSpace(s)
        neg == t # <<>> /\ Head(t) = "-"
        u == IF t # <<>> /\ Head(t) \in {"-", "+"} THEN Tail(t) ELSE t
    IN IF u = <<>> \/ ~IsDigit(Head(u)) THEN NaN
       ELSE Num(IF neg THEN 0 - DigitsValue(u, 0) ELSE DigitsValue(u, 0))

\* el.getAttribute(name): null when the attribute is absent
NoAttr(empty) == [has |-> FALSE, val |-> empty]
Attr(v) == [has |-> TRUE, val |-> v]
\* a string used as a condition: null and the empty string are falsy
Truthy(a, empty) == a.has /\ a.val # empty

\* the options initDropdowns builds from a marker's attributes
MarkerOptions(m) ==
    [placement |-> IF Truthy(m.placement, "") THEN m.placement.val ELSE Default.placement,
     triggerType |-> IF Truthy(m.triggerType, "") THEN m.triggerType.val
                     ELSE Default.triggerType,
     offsetSkidding |-> IF Truthy(m.offsetSkidding, <<>>)
                        THEN parseInt(m.offsetSkidding.val)
                        ELSE Default.offsetSkidding,
     offsetDistance |-> IF Truthy(m.offsetDistance, <<>>)
                        THEN parseInt(m.offsetDistance.val)
                        ELSE Default.offsetDistance]

RECURSIVE initDropdowns(_, _, _)
\* variant: the scan ends at the first marker whose target does not exist
initDropdownsStopAtDangling(w, ms, ids) ==
    IF ms = <<>> THEN w
    ELSE LET m == Head(ms)
             dropdownEl == getElementById(ids, m.toggle)
         IN IF dropdownEl # NoEl
            THEN initDropdowns(Dropdown(w, dropdownEl, m.el, MarkerOptions(m)), Tail(ms), ids)
            ELSE [w EXCEPT !.errors = Append(@, m.toggle)]

\* document.querySelectorAll('[data-dropdown-toggle]').forEach(...)
initDropdowns(w, ms, ids) ==
    IF ms = <<>> THEN w
    ELSE LET m == Head(ms)
             dropdownId == m.toggle
             dropdownEl == getElementById(ids, dropdownId)
             w1 == IF dropdownEl # NoEl
                   THEN Dropdown(w, dropdownEl, m.el, MarkerOptions(m))
                   ELSE [w EXCEPT !.errors = Append(@, dropdownId)]
         IN initDropdowns(w1, Tail(ms), ids)

----------------------------------------------------------------------------
(* The state machine.                                                      *)

EmptyWorld(cl) ==
    [dd |-> <<>>, cl |-> cl, el |-> <<>>, body |-> <<>>, timers |-> <<>>,
     ptr |-> Outside, log |-> <<>>, snap |-> {}, errors |-> <<>>]

\* the current state, as the operators above take it
World ==
    [dd |-> dropdowns, cl |-> classList, el |-> elListeners, body |-> bodyListeners,
     timers |-> timers, ptr |-> pointer, log |-> <<>>, snap |-> {},
     errors |-> diagnostics]

Snapshot(w) == [dd |-> w.dd, cl |-> w.cl, body |-> w.body, timers |-> w.timers, ptr |-> w.ptr]

NoRoundTrip == [valid |-> FALSE, dd |-> <<>>, cl |-> [e \in Elements |-> {}], body |-> <<>>]

WithinBounds(w) == Len(w.body) <= MaxListeners /\ Len(w.timers) <= MaxTimers

\* the elements some controller was constructed on
UsedEls == {dropdowns[c].targetEl : c \in DOMAIN dropdowns}
           \cup ({dropdowns[c].triggerEl : c \in DOMAIN dropdowns} \ {NoEl})

Commit(w, op, c, node, rt, run) ==
    /\ WithinBounds(w)
    /\ dropdowns' = w.dd
    /\ classList' = w.cl
    /\ elListeners' = w.el
    /\ bodyListeners' = w.body
    /\ timers' = w.timers
    /\ pointer' = w.ptr
    /\ diagnostics' = w.errors
    /\ last' = [op |-> op, c |-> c, node |-> node, pre |-> Snapshot(World),
                log |-> w.log, rt |-> rt]
    /\ toggleRun' = run
    /\ UNCHANGED <<markers, docIds>>

Start(w) ==
    /\ dropdowns = w.dd
    /\ classList = w.cl
    /\ elListeners = w.el
    /\ bodyListeners = w.body
    /\ timers = w.timers
    /\ pointer = w.ptr
    /\ diagnostics = w.errors
    /\ last = [op |-> "new", c |-> 0, node |-> OutsideNode, pre |-> Snapshot(w),
               log |-> <<>>, rt |-> NoRoundTrip]
    /\ toggleRun = 0
    /\ initCalls = 0

\* 'focus' stands for any value that is neither 'click' nor 'hover'
TriggerTypes == {"click", "hover", "focus"}

\* one controller, constructed by hand on the target d1 and the trigger t1 (or
\* on no trigger), whatever classes the markup gave the target
Init ==
    \E tt \in TriggerTypes, trig \in {<<"t", 1>>, NoEl}, cls \in SUBSET Classes,
       cs \in CallbackKinds, ch \in CallbackKinds :
        /\ Start(Dropdown(EmptyWorld([e \in Elements |-> IF e = <<"d", 1>> THEN cls ELSE {}]),
                          <<"d", 1>>, trig,
                          [triggerType |-> tt, onShow |-> cs, onHide |-> ch]))
        /\ markers = <<>>
        /\ docIds = {}

\* dropdown.show()
ApiShow ==
    \E c \in DOMAIN dropdowns :
        Commit(show(World, c, 0), "show", c, OutsideNode, NoRoundTrip, -1) /\ UNCHANGED initCalls

\* dropdown.hide(); when it follows a show() of the same controller, the state
\* before that show() is kept for comparison
ApiHide ==
    \E c \in DOMAIN dropdowns :
        Commit(hide(World, c, 0), "hide", c, OutsideNode,
               IF last.op = "show" /\ last.c = c
               THEN [valid |-> TRUE, dd |-> last.pre.dd, cl |-> last.pre.cl,
                     body |-> last.pre.body]
               ELSE NoRoundTrip,
               -1) /\ UNCHANGED initCalls

\* dropdown.toggle()
ApiToggle ==
    \E c \in DOMAIN dropdowns :
        Commit(toggle(World, c, 0), "toggle", c, OutsideNode, NoRoundTrip,
               IF toggleRun >= 0 /\ toggleRun < MaxToggles /\ (toggleRun = 0 \/ last.c = c)
               THEN toggleRun + 1 ELSE -1) /\ UNCHANGED initCalls

\* the user clicks somewhere
Click ==
    \E node \in NodesOf(UsedEls) :
        Commit(DispatchClick(World, node), "click", 0, node, NoRoundTrip, -1)
        /\ UNCHANGED initCalls

\* the pointer moves (followed only where some listener hears of it)
MovePointer ==
    /\ \E l \in Range(elListeners) : l.ev \in {"mouseenter", "mouseleave"}
    /\ \E to \in (UsedEls \cup {Outside}) \ {pointer} :
        Commit(DispatchMove(World, to), "move", 0, [el |-> to, part |-> "self"],
               NoRoundTrip, -1) /\ UNCHANGED initCalls

\* the oldest pending timer fires
FireTimer ==
    /\ timers # <<>>
    /\ Commit(RunTimer([World EXCEPT !.timers = Tail(@)], Head(timers)),
              "timer", Head(timers).owner, OutsideNode, NoRoundTrip, -1)
    /\ UNCHANGED initCalls

Next == ApiShow \/ ApiHide \/ ApiToggle \/ Click \/ MovePointer \/ FireTimer

Spec == Init /\ [][Next]_vars

----------------------------------------------------------------------------
(* The document initDropdowns() scans.                                     *)

\* the attributes a marker element may carry besides data-dropdown-toggle
AttrProfiles ==
    { [placement |-> NoAttr(""), triggerType |-> NoAttr(""),
       offsetSkidding |-> NoAttr(<<>>), offsetDistance |-> NoAttr(<<>>)],
      [placement |-> Attr("top"), triggerType |-> Attr("hover"),
       offsetSkidding |-> Attr(<<"0">>), offsetDistance |-> Attr(<<"1", "2">>)],
      [placement |-> Attr(""), triggerType |-> Attr("focus"),
       offsetSkidding |-> Attr(<<"a", "b", "c">>), offsetDistance |-> Attr(<<>>)],
      [placement |-> NoAttr(""), triggerType |-> Attr(""),
       offsetSkidding |-> Attr(<<"-", "4">>), offsetDistance |-> Attr(<<"7", "p", "x">>)] }

\* marker i is the element <<"t", i>>; its data-dropdown-toggle names the id
\* of its target (0 stands for an id no element can carry)
MarkerAt(i, ref, a) ==
    [el |-> <<"t", i>>, toggle |-> ref,
     placement |-> a.placement, triggerType |-> a.triggerType,
     offsetSkidding |-> a.offsetSkidding, offsetDistance |-> a.offsetDistance]

Documents ==
    UNION { { [i \in 1..n |-> MarkerAt(i, f[i][1], f[i][2])] :
                f \in [1..n -> (0..MaxMarkers) \X AttrProfiles] } : n \in 1..MaxMarkers }

InitBulk ==
    \E doc \in Documents, ids \in SUBSET Pairs :
        /\ Start(EmptyWorld([e \in Elements |-> IF e \in Targets THEN {"hidden"} ELSE {}]))
        /\ markers = doc
        /\ docIds = ids

\* initDropdowns()
InitDropdowns ==
    /\ initCalls < MaxInitCalls
    /\ Commit(initDropdowns(World, markers, docIds), "initDropdowns", 0, OutsideNode,
              NoRoundTrip, -1)
    /\ initCalls' = initCalls + 1

NextBulk == InitDropdowns

SpecBulk == InitBulk /\ [][NextBulk]_vars

----------------------------------------------------------------------------
(* A page whose dropdowns initDropdowns() has set up.                      *)

\* two markers, each naming an existing target: the two targets differ, or
\* both markers open the same dropdown
TwoMarkers(as, bs) ==
    { <<MarkerAt(1, 1, a), MarkerAt(2, r, b)>> : r \in {1, 2}, a \in as, b \in bs }

\* the state initDropdowns() leaves on such a page, every target marked
\* 'hidden' by the markup
PageAfterInit(docs) ==
    \E doc \in docs :
        LET w == initDropdowns(EmptyWorld([e \in Elements |->
                                  IF e \in Targets THEN {"hidden"} ELSE {}]),
                               doc, {1, 2})
        IN /\ dropdowns = w.dd
           /\ classList = w.cl
           /\ elListeners = w.el
           /\ bodyListeners = w.body
           /\ timers = w.timers
           /\ pointer = w.ptr
           /\ diagnostics = w.errors
           /\ last = [op |-> "initDropdowns", c |-> 0, node |-> OutsideNode,
                      pre |-> Snapshot(w), log |-> <<>>, rt |-> NoRoundTrip]
           /\ toggleRun = -1
           /\ initCalls = 1
           /\ markers = doc
           /\ docIds = {1, 2}

\* a Hover-mode dropdown next to a Click-mode one with offsets of its own
PageDocuments ==
    TwoMarkers({x \in AttrProfiles : x.triggerType = Attr("hover")},
               {x \in AttrProfiles : x.triggerType = Attr("")})

InitPage == PageAfterInit(PageDocuments)

\* the page driven by calls of show() and hide() and by clicks
NextPage == ApiShow \/ ApiHide \/ Click

SpecPage == InitPage /\ [][NextPage]_vars

\* any two dropdowns, driven by the user's clicks alone
InitClicks == PageAfterInit(TwoMarkers(AttrProfiles, AttrProfiles))

NextClicks == Click

SpecClicks == InitClicks /\ [][NextClicks]_vars

----------------------------------------------------------------------------
(* A Hover-mode dropdown whose pending checks do fire.                     *)

\* one Hover-mode controller with callbacks that do nothing, on a target the
\* markup hides or leaves without class
InitHover ==
    \E cls \in {{"hidden"}, {}} :
        /\ Start(Dropdown(EmptyWorld([e \in Elements |-> IF e = <<"d", 1>> THEN cls ELSE {}]),
                          <<"d", 1>>, <<"t", 1>>,
                          [triggerType |-> "hover", onShow |-> "noop", onHide |-> "noop"]))
        /\ markers = <<>>
        /\ docIds = {}

\* the pointer moves, pending checks fire, the page calls show()
NextHover == MovePointer \/ FireTimer \/ ApiShow

\* a callback handed to setTimeout is run in the end
SpecHover == InitHover /\ [][NextHover]_vars /\ WF_vars(FireTimer)

----------------------------------------------------------------------------
(* Vocabulary of the properties.                                           *)

Visible(c) == dropdowns[c].visible
TargetClasses(c) == classList[dropdowns[c].targetEl]
HasTrigger(c) == dropdowns[c].triggerEl # NoEl
\* the outside-click listeners controller c has on document.body
Registered(c) == Cardinality({i \in DOMAIN bodyListeners : bodyListeners[i].owner = c})
\* the user's callbacks do not call back into the controller
NoReentry(c) == dropdowns[c].options.onShow = "noop" /\ dropdowns[c].options.onHide = "noop"
WasVisible(c) == last.pre.dd[c].visible
\* what ran for controller c during the last operation or event
Ran(c, names) == SelectSeq(last.log, LAMBDA x : x.c = c /\ x.e \in names)
Names(log) == [i \in DOMAIN log |-> log[i].e]
InTarget(c, node) == Contains(dropdowns[c].targetEl, node)
InTrigger(c, node) == Contains(dropdowns[c].triggerEl, node)
\* _init gave the trigger of c a click listener that calls toggle()
ClickToggles(c) ==
    \E l \in Range(elListeners) :
        l = Listener(dropdowns[c].triggerEl, "click", c, "toggle")

----------------------------------------------------------------------------
(* C1.  The outside-click listener is registered exactly once while        *)
(* Visible and not at all while Hidden.                                    *)

\* C1 as claimed, for controllers whose callbacks do nothing: the number of
\* outside-click listeners on the document is 1 when Visible and 0 when Hidden
C1_ListenerIffVisible ==
    \A c \in DOMAIN dropdowns :
        NoReentry(c) => Registered(c) = (IF Visible(c) THEN 1 ELSE 0)

----------------------------------------------------------------------------
(* C2.  Visibility State and the target's classes agree.                   *)

\* C2 as claimed: Visible means 'block' and not 'hidden' on the target, Hidden
\* means 'hidden' and not 'block', from construction on
C2_ClassesAgree ==
    \A c \in DOMAIN dropdowns :
        IF Visible(c)
        THEN "block" \in TargetClasses(c) /\ "hidden" \notin TargetClasses(c)
        ELSE "hidden" \in TargetClasses(c) /\ "block" \notin TargetClasses(c)

----------------------------------------------------------------------------
(* C3.  Parity of toggle().                                                *)

\* C3: after N toggle() calls in a row on a fresh controller whose callbacks do
\* not re-enter, it is Visible iff N is odd, and every toggle() ends in the
\* opposite of the state it started from
C3_ToggleParity ==
    /\ toggleRun = 0 => \A c \in DOMAIN dropdowns : ~Visible(c)
    /\ toggleRun > 0 /\ NoReentry(last.c) => (Visible(last.c) <=> toggleRun % 2 = 1)
    /\ last.op = "toggle" /\ NoReentry(last.c) => Visible(last.c) = ~WasVisible(last.c)

C3_Witness ==
    /\ toggleRun = 3
    /\ NoReentry(last.c)
    /\ Visible(last.c)

----------------------------------------------------------------------------
(* C4.  show() followed at once by hide().                                 *)

\* C4 as claimed, for a controller whose callbacks do nothing and whose classes
\* agreed with its state before the show(): after show() then hide() the
\* target's classes and the registered outside-click listeners are what they
\* were before the show()
C4_RoundTripIdentical ==
    LET c == last.c
        before == last.rt.cl[dropdowns[c].targetEl]
        agreed == IF last.rt.dd[c].visible
                  THEN "block" \in before /\ "hidden" \notin before
                  ELSE "hidden" \in before /\ "block" \notin before
    IN last.rt.valid /\ NoReentry(c) /\ agreed
       => /\ classList = last.rt.cl
          /\ Range(bodyListeners) = Range(last.rt.body)

\* C4 as amended: after show() then hide() (callbacks not re-entering) the
\* registered outside-click listeners are those of before the show(), and the
\* target's classes are those of before with 'block' removed and 'hidden'
\* added: the classes are restored exactly when the target carried 'hidden'
\* and not 'block' before the show()
C4_RoundTrip ==
    LET c == last.c
        t == dropdowns[c].targetEl
        before == last.rt.cl[t]
    IN last.rt.valid /\ NoReentry(c)
       => /\ bodyListeners = last.rt.body
          /\ classList = [last.rt.cl EXCEPT ![t] = (before \ {"block"}) \cup {"hidden"}]
          /\ (classList = last.rt.cl <=> ("hidden" \in before /\ "block" \notin before))

\* a round trip from a Hidden state that still holds a leaked listener
C4_Witness ==
    /\ last.rt.valid
    /\ NoReentry(last.c)
    /\ ~last.rt.dd[last.c].visible
    /\ last.rt.body # <<>>
    /\ classList = last.rt.cl
    /\ bodyListeners = last.rt.body

----------------------------------------------------------------------------
(* C5.  Clicks while Visible.                                              *)

\* C5 as claimed, for a controller with a trigger whose callbacks do nothing:
\* while Visible a click outside both elements hides, a click in the target or
\* in the trigger leaves Visibility State unchanged
C5_ClickInsideKeepsState ==
    \A c \in DOMAIN dropdowns :
        last.op = "click" /\ WasVisible(c) /\ HasTrigger(c) /\ NoReentry(c)
        => IF InTarget(c, last.node) \/ InTrigger(c, last.node)
           THEN Visible(c)
           ELSE ~Visible(c)

\* C5 as amended: while Visible (a controller with a trigger, callbacks not
\* re-entering) a click outside both elements hides; a click in the target
\* leaves it Visible; a click in the trigger is not taken for an outside click,
\* but the trigger's own click listener, where _init registered one, calls
\* toggle() and so hides
C5_ClickWhileVisible ==
    \A c \in DOMAIN dropdowns :
        last.op = "click" /\ WasVisible(c) /\ HasTrigger(c) /\ NoReentry(c)
        => CASE InTarget(c, last.node) -> Visible(c)
             [] InTrigger(c, last.node) ->
                    /\ Visible(c) = ~ClickToggles(c)
                    /\ Names(Ran(c, {"toggle", "hide"})) =
                          (IF ClickToggles(c) THEN <<"toggle", "hide">> ELSE <<>>)
             [] OTHER -> ~Visible(c) /\ Names(Ran(c, {"toggle", "hide"})) = <<"hide">>

\* a click on a descendant of the trigger of a Visible click-mode dropdown
C5_Witness ==
    \E c \in DOMAIN dropdowns :
        /\ last.op = "click" /\ WasVisible(c) /\ HasTrigger(c) /\ NoReentry(c)
        /\ last.node = [el |-> dropdowns[c].triggerEl, part |-> "child"]
        /\ Registered(c) = 0
        /\ ~Visible(c)

----------------------------------------------------------------------------
(* C6.  Clicks on the trigger in Click mode.                               *)

\* C6: in Click mode (callbacks not re-entering) every click on the trigger
\* flips Visibility State and invokes exactly one callback, once: onShow when
\* the click shows, onHide when it hides
C6_TriggerClickFlips ==
    \A c \in DOMAIN dropdowns :
        /\ last.op = "click" /\ InTrigger(c, last.node)
        /\ dropdowns[c].options.triggerType = "click" /\ NoReentry(c)
        => /\ Visible(c) = ~WasVisible(c)
           /\ Names(Ran(c, {"onShow", "onHide"})) =
                 (IF Visible(c) THEN <<"onShow">> ELSE <<"onHide">>)

\* the second click: the capture listener saw it first, then toggle() hid
C6_Witness ==
    \E c \in DOMAIN dropdowns :
        /\ last.op = "click" /\ InTrigger(c, last.node)
        /\ dropdowns[c].options.triggerType = "click" /\ NoReentry(c)
        /\ WasVisible(c) /\ ~Visible(c)
        /\ last.pre.body # <<>>
        /\ Names(Ran(c, {"onShow", "onHide"})) = <<"onHide">>

----------------------------------------------------------------------------
(* C7.  The delayed checks of Hover mode.                                  *)

HoverMode(c) == HasTrigger(c) /\ dropdowns[c].options.triggerType = "hover"

\* C7: in Hover mode a mouseleave on the trigger (the target) schedules one
\* check of the target (the trigger); when the check fires it calls hide() iff
\* that other element is not under the pointer then: it leaves the state as it
\* was when the other element is hovered, and Hidden when it is not (callbacks
\* not re-entering)
C7_HoverChecks ==
    \A c \in DOMAIN dropdowns :
        HoverMode(c) =>
            /\ last.op = "move" /\ last.pre.ptr = dropdowns[c].triggerEl
               => timers = Append(last.pre.timers, [owner |-> c, check |-> "target"])
            /\ last.op = "move" /\ last.pre.ptr = dropdowns[c].targetEl
               => timers = Append(last.pre.timers, [owner |-> c, check |-> "trigger"])
            /\ last.op = "move" /\ last.pre.ptr = Outside => timers = last.pre.timers
            /\ last.op = "timer" /\ last.c = c
               => LET t == Head(last.pre.timers)
                      other == IF t.check = "target" THEN dropdowns[c].targetEl
                               ELSE dropdowns[c].triggerEl
                      over == pointer = other
                  IN /\ timers = Tail(last.pre.timers)
                     /\ over => last.log = <<>> /\ Visible(c) = WasVisible(c)
                     /\ ~over => Names(Ran(c, {"hide"})) # <<>> /\ last.log[1].e = "hide"
                     /\ ~over /\ NoReentry(c) => ~Visible(c) /\ Len(Ran(c, {"hide"})) = 1

\* the check scheduled by a mouseleave on the target fires with the pointer over
\* neither element, and hides
C7_Witness ==
    \E c \in DOMAIN dropdowns :
        /\ HoverMode(c) /\ NoReentry(c)
        /\ last.op = "timer" /\ last.c = c
        /\ Head(last.pre.timers).check = "trigger"
        /\ pointer = Outside
        /\ WasVisible(c) /\ ~Visible(c)

----------------------------------------------------------------------------
(* C8.  An unrecognized triggerType.                                       *)

\* C8 as claimed, for callbacks that do nothing: with a triggerType that is
\* neither 'click' nor 'hover' every click on the trigger invokes toggle(), as
\* in Click mode, and nothing throws
C8_UnrecognizedTypeToggles ==
    \A c \in DOMAIN dropdowns :
        /\ HasTrigger(c) /\ dropdowns[c].options.triggerType \notin {"click", "hover"}
        /\ NoReentry(c)
        /\ last.op = "click" /\ InTrigger(c, last.node)
        => /\ Ran(c, {"toggle"}) # <<>>
           /\ Ran(c, {"TypeError"}) = <<>>

----------------------------------------------------------------------------
(* C9.  A controller without a trigger.                                    *)

\* C9 as claimed: a controller constructed without a trigger has no listener
\* of its own on any element, and after show() a click outside the target is
\* handled without an error and hides (callbacks not re-entering)
C9_NoTriggerOutsideClick ==
    \A c \in DOMAIN dropdowns :
        ~HasTrigger(c) /\ NoReentry(c)
        => /\ \A l \in Range(elListeners) : l.owner # c
           /\ last.op = "click" /\ WasVisible(c) /\ ~InTarget(c, last.node)
              => Ran(c, {"TypeError"}) = <<>> /\ ~Visible(c)

----------------------------------------------------------------------------
(* C10.  initDropdowns().                                                  *)

Resolves(m) == getElementById(docIds, m.toggle) # NoEl
ValidMarkers == SelectSeq(markers, Resolves)
DanglingMarkers == SelectSeq(markers, LAMBDA m : ~Resolves(m))

\* C10: every call of initDropdowns() constructs one controller for each marker
\* whose reference resolves, on that marker and the element it names, in
\* document order, and reports one diagnostic for each marker whose reference
\* dangles, wherever those stand in the document
C10_BulkInit ==
    LET nv == Len(ValidMarkers)
        nd == Len(DanglingMarkers)
    IN /\ Len(dropdowns) = initCalls * nv
       /\ Len(diagnostics) = initCalls * nd
       /\ \A k \in 0..(initCalls - 1) :
            /\ \A i \in 1..nv :
                 /\ dropdowns[k * nv + i].triggerEl = ValidMarkers[i].el
                 /\ dropdowns[k * nv + i].targetEl = <<"d", ValidMarkers[i].toggle>>
            /\ \A i \in 1..nd : diagnostics[k * nd + i] = DanglingMarkers[i].toggle

\* a dangling marker standing before a valid one: one diagnostic, one controller
C10_Witness ==
    /\ initCalls = 1
    /\ Len(markers) = 2
    /\ ~Resolves(markers[1]) /\ Resolves(markers[2])
    /\ Len(dropdowns) = 1 /\ dropdowns[1].triggerEl = markers[2].el
    /\ Len(diagnostics) = 1

----------------------------------------------------------------------------
(* C11.  The engine's effective 'eventListeners' flag follows the          *)
(* Visibility State.                                                       *)

\* the 'eventListeners' entries of the modifiers held by the engine of c
EventListenersEntries(c) ==
    SelectSeq(dropdowns[c].popperInstance.modifiers,
              LAMBDA m : m.name = "eventListeners")

\* the last of them decides; "unset" when setOptions never added one
EffectiveEnabled(c) ==
    LET evs == EventListenersEntries(c)
    IN IF evs = <<>> THEN "unset" ELSE IF evs[Len(evs)].enabled THEN "on" ELSE "off"

\* C11: after any calls of show(), hide() and toggle(), the effective
\* 'eventListeners' flag is on exactly when the controller is Visible; off or
\* unset is met only while Hidden
C11_EffectiveFlag ==
    \A c \in DOMAIN dropdowns : (EffectiveEnabled(c) = "on") <=> Visible(c)

\* a Visible controller whose engine also holds an older, disabling entry
C11_Witness ==
    \E c \in DOMAIN dropdowns :
        /\ Visible(c)
        /\ last.op \in {"show", "toggle"}
        /\ \E i \in DOMAIN EventListenersEntries(c) : ~EventListenersEntries(c)[i].enabled

----------------------------------------------------------------------------
(* C12.  show(), hide() and toggle() keep the engine and its construction  *)
(* options; they only add 'eventListeners' entries.                        *)

\* the last n elements of s
LastN(s, n) == IF Len(s) <= n THEN s ELSE SubSeq(s, Len(s) - n + 1, Len(s))

\* the 'eventListeners' entries the calls of the last operation hand over, in
\* the order of the calls
EntriesOf(log) ==
    [i \in DOMAIN log |-> [name |-> "eventListeners", enabled |-> log[i].e = "show"]]

\* C12: whatever ran, the engine of every controller still has the anchor, the
\* target, the placement and the offset modifier of its construction, in front
\* of the 'eventListeners' entries it had before followed by one entry per
\* show() and hide() that ran
C12_EngineKept ==
    \A c \in DOMAIN dropdowns :
        LET d == dropdowns[c]
            p == d.popperInstance
            before == SelectSeq(last.pre.dd[c].popperInstance.modifiers,
                                LAMBDA m : m.name = "eventListeners")
        IN /\ p.reference = d.triggerEl
           /\ p.popper = d.targetEl
           /\ p.placement = d.options.placement
           /\ p.modifiers =
                << [name |-> "offset",
                    options |-> <<d.options.offsetSkidding, d.options.offsetDistance>>] >>
                \o LastN(before \o EntriesOf(Ran(c, {"show", "hide"})), MaxMods)

\* a show() on an engine that already held an 'eventListeners' entry
C12_Witness ==
    \E c \in DOMAIN dropdowns :
        /\ Ran(c, {"show"}) # <<>>
        /\ \E i \in DOMAIN last.pre.dd[c].popperInstance.modifiers :
              last.pre.dd[c].popperInstance.modifiers[i].name = "eventListeners"
        /\ Len(dropdowns[c].popperInstance.modifiers) >= 3

----------------------------------------------------------------------------
(* C13.  The user's callback is the last step of show() and of hide().     *)

\* what onShow(self) finds: the visible class, the listener of this show()
\* registered, the position just recomputed, Visible
OnShowSees(log, i) ==
    /\ log[i].visible
    /\ "block" \in log[i].classes
    /\ "hidden" \notin log[i].classes
    /\ log[i].current
    /\ log[i].registered >= 1
    /\ i > 1
    /\ log[i - 1].e = "update"
    /\ log[i - 1].c = log[i].c

\* what onHide(self) finds: the hidden class, Hidden, the listener the
\* controller held removed from the document
OnHideSees(log, i) ==
    /\ ~log[i].visible
    /\ "hidden" \in log[i].classes
    /\ "block" \notin log[i].classes
    /\ ~log[i].current

\* C13: every onShow(self) and every onHide(self) that ran started from the
\* state its operation establishes, whether or not the callback re-enters the
\* controller; and nothing of the operation follows the callback: when it is
\* the last thing that ran, the controller is left as the callback found it
C13_CallbackLast ==
    /\ \A i \in DOMAIN last.log :
          /\ last.log[i].e = "onShow" => OnShowSees(last.log, i)
          /\ last.log[i].e = "onHide" => OnHideSees(last.log, i)
          /\ i < Len(last.log) /\ last.log[i].e \in {"onShow", "onHide"}
                => last.log[i + 1].e \in {"show", "hide", "toggle", "TypeError"}
    /\ last.log # <<>> /\ last.log[Len(last.log)].e \in {"onShow", "onHide"}
          => LET x == last.log[Len(last.log)]
             IN /\ Visible(x.c) = x.visible
                /\ TargetClasses(x.c) = x.classes
                /\ Registered(x.c) = x.registered

\* a show() whose onShow re-entered the controller and so ran onHide as well
C13_Witness ==
    \E c \in DOMAIN dropdowns :
        /\ dropdowns[c].options.onShow # "noop"
        /\ Ran(c, {"onShow"}) # <<>>
        /\ Ran(c, {"onHide"}) # <<>>

----------------------------------------------------------------------------
(* C14.  Several controllers: each one touches only its own listener,      *)
(* state and target.                                                       *)

\* nothing of controller c ran during the last operation or event
Idle(c) == \A i \in DOMAIN last.log : last.log[i].c # c

OwnListeners(body, c) == SelectSeq(body, LAMBDA l : l.owner = c)

\* the listeners and the Visibility State of c are as before the last
\* operation
KeptListenerAndState(c) ==
    /\ OwnListeners(bodyListeners, c) = OwnListeners(last.pre.body, c)
    /\ dropdowns[c].clickOutsideEventListener = last.pre.dd[c].clickOutsideEventListener
    /\ Visible(c) = WasVisible(c)

KeptClasses(c) == TargetClasses(c) = last.pre.cl[dropdowns[c].targetEl]

\* some controller that ran has the Target Element of c as its own
SharesTargetWithActive(c) ==
    \E a \in DOMAIN dropdowns :
        /\ ~Idle(a)
        /\ dropdowns[a].targetEl = dropdowns[c].targetEl

\* C14 as claimed: whatever the other controllers did, a controller of which
\* nothing ran keeps its listeners, its Visibility State and its target classes
C14_OthersUntouched ==
    \A c \in DOMAIN dropdowns :
        Idle(c) /\ last.op \in {"show", "hide", "click"}
            => KeptListenerAndState(c) /\ KeptClasses(c)

\* C14, amended: such a controller keeps its listeners and its Visibility
\* State; it keeps its target classes when no controller that ran is attached
\* to the same Target Element
C14_OthersUntouchedUnlessShared ==
    \A c \in DOMAIN dropdowns :
        Idle(c) /\ last.op \in {"show", "hide", "click"}
            => /\ KeptListenerAndState(c)
               /\ ~SharesTargetWithActive(c) => KeptClasses(c)

\* a controller was hidden, by hide() or by an outside click, while another
\* one, on a target of its own, stayed Visible with its listener
C14_Witness ==
    \E c, a \in DOMAIN dropdowns :
        /\ dropdowns[a].targetEl # dropdowns[c].targetEl
        /\ Idle(c)
        /\ Visible(c)
        /\ Registered(c) >= 1
        /\ Ran(a, {"hide"}) # <<>>
        /\ last.pre.dd[a].visible

----------------------------------------------------------------------------
(* C15.  initDropdowns() falls back to the defaults for attributes that    *)
(* are absent or cannot be parsed.                                         *)

\* the offset the claim expects for an attribute: its integer when parseInt
\* finds one, the default otherwise
ExpectedOffset(a, default) ==
    IF a.has /\ parseInt(a.val) # NaN THEN parseInt(a.val) ELSE Num(default)

\* the placement or trigger type the claim expects: the attribute's value when
\* it has one, the default otherwise
ExpectedName(a, default) == IF a.has /\ a.val # "" THEN a.val ELSE default

\* C15 as claimed: every controller initDropdowns() constructs has the
\* placement, trigger type and offsets of its marker, with 'bottom', 'click', 0
\* and 10 in the place of an attribute that is absent or does not parse, and
\* the integer of an offset that parses, "0" included
C15_AttributeDefaults ==
    Len(dropdowns) = Len(ValidMarkers) =>
        \A i \in DOMAIN dropdowns :
            LET m == ValidMarkers[i]
                o == dropdowns[i].options
            IN /\ o.placement = ExpectedName(m.placement, "bottom")
               /\ o.triggerType = ExpectedName(m.triggerType, "click")
               /\ o.offsetSkidding = ExpectedOffset(m.offsetSkidding, 0)
               /\ o.offsetDistance = ExpectedOffset(m.offsetDistance, 10)

----------------------------------------------------------------------------
(* C16.  Hover mode: no delayed check hides the dropdown under the         *)
(* pointer.                                                                *)

\* the pointer is over the trigger or over the target of c
PointerOver(c) ==
    \/ MatchesHover(dropdowns[c].triggerEl, pointer)
    \/ MatchesHover(dropdowns[c].targetEl, pointer)

\* C16 as claimed, for callbacks that do nothing: in Hover mode a delayed check
\* that fires on a Visible dropdown while the pointer is over the trigger or
\* over the target does not call hide() and leaves the dropdown Visible
C16_NoHideUnderPointer ==
    \A c \in DOMAIN dropdowns :
        /\ HoverMode(c) /\ NoReentry(c)
        /\ last.op = "timer" /\ last.c = c
        /\ WasVisible(c) /\ PointerOver(c)
        => Ran(c, {"hide"}) = <<>> /\ Visible(c)

----------------------------------------------------------------------------
(* C17.  onHide is invoked for Visible-to-Hidden transitions only.         *)

\* C17 as claimed, for callbacks that do nothing: every hide() that ran, and
\* so every onHide(self) it ended with, started from the Visible state
C17_OnHideFromVisible ==
    \A i \in DOMAIN last.log :
        /\ last.log[i].e = "hide"
        /\ NoReentry(last.log[i].c)
        /\ i < Len(last.log) /\ last.log[i + 1].e = "onHide"
        => last.log[i].visible

----------------------------------------------------------------------------
(* C18.  Hover mode: left alone by the pointer, the dropdown ends Hidden.  *)

\* no check is pending and every Hover-mode controller that the pointer has
\* left for a place outside of it, or whose check has fired since, is Hidden
SettledHidden ==
    /\ timers = <<>>
    /\ \A c \in DOMAIN dropdowns :
          HoverMode(c) /\ pointer = Outside /\ last.op \in {"move", "timer"}
              => ~Visible(c)

\* C18: when from some point on nothing happens but pending checks firing,
\* every pending check fires and, the pointer having left trigger and target,
\* the controller becomes Hidden and stays Hidden
C18_EventuallyHidden == <>[][FireTimer]_vars => <>[]SettledHidden

\* the last pending check has fired with the pointer outside and found the
\* dropdown Visible: it is Hidden now and nothing is pending
C18_Witness ==
    \E c \in DOMAIN dropdowns :
        /\ HoverMode(c)
        /\ last.op = "timer" /\ last.c = c
        /\ Len(last.pre.timers) = 1
        /\ pointer = Outside
        /\ WasVisible(c)
        /\ SettledHidden

----------------------------------------------------------------------------
(* C19.  Click-mode dropdowns on one page: at most one is open.            *)

ClickMode(c) == HasTrigger(c) /\ dropdowns[c].options.triggerType = "click"

\* every controller of the page is in Click mode and no two of them have an
\* element in common
DisjointClickModePage ==
    /\ \A c \in DOMAIN dropdowns : ClickMode(c)
    /\ \A c, a \in DOMAIN dropdowns :
          c # a => {dropdowns[c].triggerEl, dropdowns[c].targetEl}
                   \cap {dropdowns[a].triggerEl, dropdowns[a].targetEl} = {}

\* C19: on such a page, all dropdowns Hidden at first and only clicks
\* happening, at most one controller is Visible; a click on the trigger of
\* another controller first hides the Visible one, in the capture phase, and
\* then shows the one clicked
C19_AtMostOneVisible ==
    DisjointClickModePage =>
        /\ Cardinality({c \in DOMAIN dropdowns : Visible(c)}) <= 1
        /\ \A c, a \in DOMAIN dropdowns :
              /\ c # a
              /\ last.op = "click" /\ InTrigger(a, last.node)
              /\ WasVisible(c)
              => /\ Names(last.log) = <<"hide", "onHide", "toggle", "show", "update", "onShow">>
                 /\ last.log[1].c = c /\ last.log[3].c = a
                 /\ ~Visible(c) /\ Visible(a)

\* with one dropdown open, the trigger of the other was clicked
C19_Witness ==
    /\ DisjointClickModePage
    /\ \E c, a \in DOMAIN dropdowns :
          /\ c # a
          /\ last.op = "click" /\ InTrigger(a, last.node)
          /\ WasVisible(c) /\ ~Visible(c) /\ Visible(a)

----------------------------------------------------------------------------
(* C20.  One outside click, one hide(), however many closures are          *)
(* registered.                                                             *)

\* the last event was a click outside the trigger and the target of the
\* Visible controller c
OutsideClickWhileVisible(c) ==
    /\ HasTrigger(c)
    /\ last.op = "click"
    /\ ~InTarget(c, last.node) /\ ~InTrigger(c, last.node)
    /\ WasVisible(c)

====
